---- MODULE Spec2Model ----
(***************************************************************************)
(* Model of the ray-casting rasterizer of src/src/main.rs.                 *)
(*                                                                         *)
(* Numbers.  The program computes in f32.  Every coordinate of the model   *)
(* is an integer counting HALF units (the value c stands for c/2), so a    *)
(* pixel centre k + 0.5 is the integer 2k + 1 and `x - 1.0` is x - 2.      *)
(* On such small dyadic values every f32 addition, subtraction and         *)
(* multiplication of the program is exact.  The only rounded operations    *)
(* are 1.0/det and the product with it (intersect) and the division by     *)
(* the length (make_thicc).  A parameter fl(fl(1/det) * n) is kept as the  *)
(* fraction <<n, det>>: the program only compares it with 0.0 and 1.0, and *)
(* on these values the rounded product has the sign of n/det, is <= 1.0    *)
(* when n = det, and is > 1.0 when n/det > 1.  make_thicc is applied only  *)
(* to segments and widths whose offsets width/2 * normal are dyadic, where *)
(* the f32 result is the exact one.  Overflow to infinity and NaN do not   *)
(* arise on these values and are not modelled.                             *)
(***************************************************************************)
EXTENDS Integers, Sequences, FiniteSets, TLC

VARIABLES
    path,          \* the caller's path: a sequence of Lines
    w, h,          \* grid size handed to fill / stroke
    x, y,          \* sample point handed to compute_winding (half units)
    self, other,   \* the two Lines handed to Line::intersect
    stroke_width,  \* stroke width handed to stroke (half units)
    ret,           \* results of the calls made so far (a record, see Blank)
    done           \* names of the calls made so far

vars == <<path, w, h, x, y, self, other, stroke_width, ret, done>>

----------------------------------------------------------------------------
(* struct V2 (f32, f32) and struct Line (V2, V2): tuples, .0 is [1], .1 is [2] *)

V2(a, b) == <<a, b>>

Line(p, q) == <<p, q>>

\* Line::direction
direction(l) == V2(l[2][1] - l[1][1], l[2][2] - l[1][2])

\* Option<(f32, f32)>: None is the empty tuple, Some((t, u)) the pair <<t, u>>,
\* each of t, u the fraction <<numerator, det>> standing for 1.0/det * numerator.
None == <<>>

Some(t, u) == <<t, u>>

IsSome(o) == Len(o) = 2

\* the f32 comparison `q >= 0.0` of a parameter q = 1.0/det * n
GeZero(q) == (q[1] >= 0 /\ q[2] > 0) \/ (q[1] <= 0 /\ q[2] < 0)

\* the f32 comparison `q <= 1.0` of a parameter q = 1.0/det * n
LeOne(q) == IF q[2] > 0 THEN q[1] <= q[2] ELSE q[1] >= q[2]

\* same as intersect, with the sign of the second product of det flipped
intersect_detsign(a, b) ==
    LET a_p == a[1]
        a_d == direction(a)
        b_p == b[1]
        b_d == direction(b)
        det == a_d[1] * (-b_d[2]) + (-b_d[1]) * a_d[2]
    IN  IF det = 0 THEN None
        ELSE Some(<<(-b_d[2]) * (b_p[1] - a_p[1]) + b_d[1] * (b_p[2] - a_p[2]), det>>,
                  <<(-a_d[2]) * (b_p[1] - a_p[1]) + a_d[1] * (b_p[2] - a_p[2]), det>>)

\* same as intersect, with u built from b's direction instead of a's
intersect_wrongu(a, b) ==
    LET a_p == a[1]
        a_d == direction(a)
        b_p == b[1]
        b_d == direction(b)
        det == a_d[1] * (-b_d[2]) - (-b_d[1]) * a_d[2]
    IN  IF det = 0 THEN None
        ELSE Some(<<(-b_d[2]) * (b_p[1] - a_p[1]) + b_d[1] * (b_p[2] - a_p[2]), det>>,
                  <<(-b_d[2]) * (b_p[1] - a_p[1]) + a_d[1] * (b_p[2] - a_p[2]), det>>)

\* Line::intersect
intersect(a, b) ==
    LET a_p == a[1]
        a_d == direction(a)
        b_p == b[1]
        b_d == direction(b)
        det == a_d[1] * (-b_d[2]) - (-b_d[1]) * a_d[2]
    IN  IF det = 0 THEN None
        ELSE Some(<<(-b_d[2]) * (b_p[1] - a_p[1]) + b_d[1] * (b_p[2] - a_p[2]), det>>,
                  <<(-a_d[2]) * (b_p[1] - a_p[1]) + a_d[1] * (b_p[2] - a_p[2]), det>>)

\* same as crossing, without the ray_hit test
crossing_noray(ray, line) ==
    LET r == intersect(ray, line)
    IN  IF IsSome(r)
        THEN LET u == r[2]
                 segment_hit == GeZero(u) /\ LeOne(u)
             IN  IF segment_hit
                 THEN (IF line[2][2] >= line[1][2] THEN 1 ELSE -1)
                 ELSE 0
        ELSE 0

\* same as crossing, with None unwrapped to t = u = 0 instead of skipped
crossing_unwrap(ray, line) ==
    LET r == intersect(ray, line)
        t == IF IsSome(r) THEN r[1] ELSE <<0, 1>>
        u == IF IsSome(r) THEN r[2] ELSE <<0, 1>>
        ray_hit == GeZero(t)
        segment_hit == GeZero(u) /\ LeOne(u)
    IN  IF ray_hit /\ segment_hit
        THEN (IF line[2][2] >= line[1][2] THEN 1 ELSE -1)
        ELSE 0

\* the body of the loop of compute_winding: the delta one line adds
crossing(ray, line) ==
    LET r == intersect(ray, line)
    IN  IF IsSome(r)
        THEN LET t == r[1]
                 u == r[2]
                 ray_hit == GeZero(t)
                 segment_hit == GeZero(u) /\ LeOne(u)
             IN  IF ray_hit /\ segment_hit
                 THEN (IF line[2][2] >= line[1][2] THEN 1 ELSE -1)
                 ELSE 0
        ELSE 0

RECURSIVE winding_loop(_, _, _)
winding_loop(p, ray, i) ==
    IF i > Len(p) THEN 0 ELSE crossing(ray, p[i]) + winding_loop(p, ray, i + 1)

\* compute_winding
compute_winding(p, sx, sy) ==
    winding_loop(p, Line(V2(sx, sy), V2(sx - 2, sy)), 1)

\* i32 `%`: the remainder takes the sign of the dividend
rem(a, b) == IF a >= 0 THEN a % b ELSE -((-a) % b)

\* enum FillRule and the match of rasterize
FillRule == {"NonZero", "EvenOdd"}

filled(winding, fill_rule) ==
    IF fill_rule = "NonZero" THEN winding /= 0 ELSE rem(winding, 2) /= 0

\* same as rasterize, sampling the corner (x, y) of each pixel
rasterize_corner(p, gw, gh, fill_rule) ==
    [r \in 1..gh |->
        [c \in 1..gw |->
            IF filled(compute_winding(p, 2 * (c - 1), 2 * (r - 1)), fill_rule)
            THEN "#" ELSE "."]]

\* rasterize: the printed rows, row y+1 holding one "#" or "." per x
rasterize(p, gw, gh, fill_rule) ==
    [r \in 1..gh |->
        [c \in 1..gw |->
            IF filled(compute_winding(p, 2 * (c - 1) + 1, 2 * (r - 1) + 1), fill_rule)
            THEN "#" ELSE "."]]

\* fill
fill(p, gw, gh, fill_rule) == rasterize(p, gw, gh, fill_rule)

\* f32::sqrt of a perfect square (make_thicc is applied to such lengths only)
sqrt(n) == CHOOSE r \in 0..n : r * r <= n /\ (r + 1) * (r + 1) > n

\* Line::make_thicc.  width/2.0 * normal is (half * left) / length, an exact
\* division on the segments the model strokes (see Thickenable).
make_thicc(l, width) ==
    LET dir == direction(l)
        left == V2(-dir[2], dir[1])
        length == sqrt(left[1] * left[1] + left[2] * left[2])
        half == width \div 2
        ox == (half * left[1]) \div length
        oy == (half * left[2]) \div length
        p0 == V2(l[1][1] + ox, l[1][2] + oy)
        p1 == V2(l[2][1] + ox, l[2][2] + oy)
        p2 == V2(l[2][1] - ox, l[2][2] - oy)
        p3 == V2(l[1][1] - ox, l[1][2] - oy)
    IN  <<Line(p0, p1), Line(p1, p2), Line(p2, p3), Line(p3, p0)>>

RECURSIVE stroke_loop(_, _, _)
stroke_loop(p, width, i) ==
    IF i > Len(p) THEN <<>> ELSE make_thicc(p[i], width) \o stroke_loop(p, width, i + 1)

\* stroke
stroke(p, gw, gh, width) == fill(stroke_loop(p, width, 1), gw, gh, "NonZero")

----------------------------------------------------------------------------
(* State after construction: no call made yet. *)

Blank ==
    [intersect |-> None, winding |-> 0, before |-> <<>>,
     NonZero |-> <<>>, EvenOdd |-> <<>>, stroke |-> <<>>, alone |-> <<>>]

NoLine == Line(V2(0, 0), V2(0, 0))

----------------------------------------------------------------------------
(* Calls of Line::intersect on every pair of segments of a small lattice. *)

MaxCoordI == 2

PointsI == (0..MaxCoordI) \X (0..MaxCoordI)

InitIntersect ==
    /\ self \in PointsI \X PointsI
    /\ other \in PointsI \X PointsI
    /\ path = <<>> /\ w = 0 /\ h = 0 /\ x = 0 /\ y = 0 /\ stroke_width = 0
    /\ ret = Blank
    /\ done = {}

CallIntersect ==
    /\ "intersect" \notin done
    /\ ret' = [ret EXCEPT !.intersect = intersect(self, other)]
    /\ done' = done \cup {"intersect"}
    /\ UNCHANGED <<path, w, h, x, y, self, other, stroke_width>>

NextIntersect == CallIntersect

SpecIntersect == InitIntersect /\ [][NextIntersect]_vars

ZeroLength(l) == l[1] = l[2]

\* the directions of a and b are parallel (a zero direction is parallel to all)
Parallel(a, b) == direction(a)[1] * direction(b)[2] = direction(a)[2] * direction(b)[1]

C10_SamePoint ==
    "intersect" \in done =>
        IF Parallel(self, other) THEN ret.intersect = None
        ELSE /\ IsSome(ret.intersect)
             /\ LET t == ret.intersect[1]
                    u == ret.intersect[2]
                    a_d == direction(self)
                    b_d == direction(other)
                IN  /\ t[2] = u[2] /\ t[2] /= 0
                    /\ self[1][1] * t[2] + t[1] * a_d[1] = other[1][1] * u[2] + u[1] * b_d[1]
                    /\ self[1][2] * t[2] + t[1] * a_d[2] = other[1][2] * u[2] + u[1] * b_d[2]

\* a call has returned parameters that are proper fractions: t = 1/2, u = 1/2
C10_Witness ==
    /\ "intersect" \in done
    /\ self = Line(V2(0, 0), V2(2, 2)) /\ other = Line(V2(0, 2), V2(2, 0))
    /\ IsSome(ret.intersect)
    /\ 2 * ret.intersect[1][1] = ret.intersect[1][2]
    /\ 2 * ret.intersect[2][1] = ret.intersect[2][2]

----------------------------------------------------------------------------
(* Calls of compute_winding on squares (axis-aligned and tilted, in both   *)
(* orientations) and on single segments, and again after the caller has    *)
(* put a zero-length segment into the path.                                *)

MaxEdge == 2

\* the closed square with first corner p and first edge e, as main writes
\* its closed paths: four Lines, each starting where the last one ended
Square(p, e) ==
    LET p1 == V2(p[1] + e[1], p[2] + e[2])
        p2 == V2(p1[1] - e[2], p1[2] + e[1])
        p3 == V2(p[1] - e[2], p[2] + e[1])
    IN  <<Line(p, p1), Line(p1, p2), Line(p2, p3), Line(p3, p)>>

\* p traversed backwards
Reversed(p) == [i \in 1..Len(p) |-> Line(p[Len(p) + 1 - i][2], p[Len(p) + 1 - i][1])]

\* first edges: every direction of the first quadrant, axis-aligned or tilted
Edges == (1..MaxEdge) \X (0..MaxEdge)

Squares ==
    LET fwd == {Square(V2(0, 0), e) : e \in Edges}
    IN  fwd \cup {Reversed(s) : s \in fwd}

SampleXs == (-MaxEdge - 1)..(MaxEdge + 2)

SampleYs == (-1)..(2 * MaxEdge + 1)

SegCoords == 0..MaxEdge

Singles == {<<Line(V2(a, b), V2(c, d))>> : a \in SegCoords, b \in SegCoords,
                                          c \in SegCoords, d \in SegCoords}

InitWinding ==
    /\ path \in Squares \cup Singles
    /\ x \in SampleXs
    /\ y \in SampleYs
    /\ self = NoLine /\ other = NoLine /\ w = 0 /\ h = 0 /\ stroke_width = 0
    /\ ret = Blank
    /\ done = {}

\* compute_winding(&path, x, y), before and after the path is extended
CallComputeWinding ==
    /\ \/ "compute_winding" \notin done
       \/ "append" \in done /\ "compute_winding again" \notin done
    /\ ret' = [ret EXCEPT !.winding = compute_winding(path, x, y)]
    /\ done' = done \cup {IF "append" \in done THEN "compute_winding again"
                          ELSE "compute_winding"}
    /\ UNCHANGED <<path, w, h, x, y, self, other, stroke_width>>

InsertAt(p, i, l) == SubSeq(p, 1, i - 1) \o <<l>> \o SubSeq(p, i, Len(p))

\* the caller puts the zero-length Line(pt, pt) into the path at position i,
\* keeping the winding computed so far for comparison
AppendZeroLength ==
    /\ "compute_winding" \in done
    /\ "append" \notin done
    /\ \E i \in 1..(Len(path) + 1), px \in {x - 2, x - 1, x}, py \in {y - 1, y, y + 1} :
          path' = InsertAt(path, i, Line(V2(px, py), V2(px, py)))
    /\ ret' = [ret EXCEPT !.before = <<ret.winding>>]
    /\ done' = done \cup {"append"}
    /\ UNCHANGED <<w, h, x, y, self, other, stroke_width>>

NextWinding == CallComputeWinding \/ AppendZeroLength

SpecWinding == InitWinding /\ [][NextWinding]_vars

Cross(u, v) == u[1] * v[2] - u[2] * v[1]

\* on which side of Line l the point pt lies: > 0, = 0 (on the line) or < 0
Side(l, pt) == Cross(direction(l), V2(pt[1] - l[1][1], pt[2] - l[1][2]))

\* > 0 or < 0 with the sense in which the convex closed path p turns
Orientation(p) == Cross(direction(p[1]), direction(p[2]))

StrictlyInside(p, pt) ==
    \A i \in 1..Len(p) : Side(p[i], pt) * Orientation(p) > 0

StrictlyOutside(p, pt) ==
    \E i \in 1..Len(p) : Side(p[i], pt) * Orientation(p) < 0

\* C4: for a closed square path in either orientation, compute_winding is
\* nonzero with one sign (fixed by the orientation) at every sample point
\* strictly inside, and exactly 0 at every sample point strictly outside,
\* also when the sample's y is the y of a vertex.
C4_SquareWinding ==
    ("compute_winding" \in done /\ "append" \notin done /\ path \in Squares) =>
        /\ StrictlyInside(path, V2(x, y)) =>
              /\ ret.winding /= 0
              /\ (ret.winding > 0) = (Orientation(path) < 0)
        /\ StrictlyOutside(path, V2(x, y)) => ret.winding = 0

\* C8: putting a zero-length segment into a path at any position leaves
\* compute_winding unchanged at the sample point, and with it the decision
\* rasterize takes there under both fill rules.
C8_ZeroLengthIgnored ==
    "compute_winding again" \in done =>
        /\ ret.winding = ret.before[1]
        /\ \A r \in FillRule : filled(ret.winding, r) = filled(ret.before[1], r)

\* a zero-length segment lying on the ray, left of a sample point that is
\* inside a square, has been added and the winding computed again
C8_Witness ==
    /\ "compute_winding again" \in done
    /\ Len(path) = 5
    /\ ret.winding /= 0
    /\ \E i \in 1..5 : path[i][1] = path[i][2] /\ path[i][1][2] = y /\ path[i][1][1] < x

----------------------------------------------------------------------------
(* Calls of fill, under both rules, on closed triangles and single         *)
(* segments around a small grid, on the square of side SquareSide, and on  *)
(* the `eight` path of main moved down by half-unit steps.                 *)

MaxLat == 3

MaxGrid == 2

SquareSide == 10

EightW == 20

EightH == 16

MaxShift == 1

LatCoords == (-1)..MaxLat

LatPoints == LatCoords \X LatCoords

\* an order on the lattice points, to list each closed triangle once per sense
Rank(pt) == pt[1] * (MaxLat + 2) + pt[2]

\* closed, non-degenerate triangles: the simple closed polygons of the lattice
After(a) == {q \in LatPoints : Rank(q) > Rank(a)}

Triangles ==
    UNION {{<<Line(a, b), Line(b, c), Line(c, a)>> : b \in After(a), c \in After(a)} :
              a \in LatPoints}

NonDegenerate(p) == Cross(direction(p[1]), direction(p[2])) /= 0

LatSegments == {<<Line(a, b)>> : a \in LatPoints, b \in LatPoints}

\* the path (0,0)-(S,0)-(S,S)-(0,S)-(0,0), S in units
SquarePath == Square(V2(0, 0), V2(2 * SquareSide, 0))

\* main's eight, in half units
eight == <<
    Line(V2( 8,  4), V2(32,  4)),
    Line(V2(32,  4), V2(32, 12)),
    Line(V2(32, 12), V2(12, 18)),
    Line(V2(12, 18), V2(12, 26)),
    Line(V2(12, 26), V2(28, 26)),
    Line(V2(28, 26), V2(28, 18)),
    Line(V2(28, 18), V2( 8, 12)),
    Line(V2( 8, 12), V2( 8,  4)),
    Line(V2(12, 12), V2(32, 18)),
    Line(V2(32, 18), V2(32, 28)),
    Line(V2(32, 28), V2( 8, 28)),
    Line(V2( 8, 28), V2( 8, 18)),
    Line(V2( 8, 18), V2(28, 12)),
    Line(V2(28, 12), V2(28,  6)),
    Line(V2(28,  6), V2(12,  6)),
    Line(V2(12,  6), V2(12, 12)) >>

\* p moved by (dx, dy)
Shifted(p, dx, dy) ==
    [i \in 1..Len(p) |-> Line(V2(p[i][1][1] + dx, p[i][1][2] + dy),
                              V2(p[i][2][1] + dx, p[i][2][2] + dy))]

Eights == {Shifted(eight, 0, dy) : dy \in 0..MaxShift}

InitFill ==
    /\ \/ /\ path \in {t \in Triangles : NonDegenerate(t)} \cup LatSegments
          /\ w \in 1..MaxGrid
          /\ h = w
       \/ /\ path = SquarePath
          /\ w \in {SquareSide, 2 * SquareSide}
          /\ h = w
       \/ /\ path \in Eights
          /\ w = EightW
          /\ h = EightH
    /\ self = NoLine /\ other = NoLine /\ x = 0 /\ y = 0 /\ stroke_width = 0
    /\ ret = Blank
    /\ done = {}

\* fill(&path, w, h, fill_rule)
CallFill ==
    \E fill_rule \in FillRule :
        /\ fill_rule \notin done
        /\ ret' = [ret EXCEPT ![fill_rule] = fill(path, w, h, fill_rule)]
        /\ done' = done \cup {fill_rule}
        /\ UNCHANGED <<path, w, h, x, y, self, other, stroke_width>>

NextFill == CallFill

SpecFill == InitFill /\ [][NextFill]_vars

Cells == (1..h) \X (1..w)

\* the sample point of the cell in row c[1], column c[2] (half units)
Centre(c) == V2(2 * (c[2] - 1) + 1, 2 * (c[1] - 1) + 1)

NoCellFilled(g) == \A c \in Cells : g[c[1]][c[2]] = "."

\* C1: for a simple closed polygon, wherever its vertices lie, fill under
\* NonZero and fill under EvenOdd mark the same cells.
C1_RulesAgreeOnSimple ==
    (FillRule \subseteq done /\ (path = SquarePath \/ (path \in Triangles /\ NonDegenerate(path)))) =>
        ret.NonZero = ret.EvenOdd

\* the sampling rectangle [0, w) x [0, h), in half units
InRect(pt) == 0 <= pt[1] /\ pt[1] < 2 * w /\ 0 <= pt[2] /\ pt[2] < 2 * h

RectCorners == {V2(0, 0), V2(2 * w, 0), V2(0, 2 * h), V2(2 * w, 2 * h)}

Above(l) == l[1][2] < 0 /\ l[2][2] < 0

Below(l) == l[1][2] >= 2 * h /\ l[2][2] >= 2 * h

RightOf(l) == l[1][1] >= 2 * w /\ l[2][1] >= 2 * w

LeftOf(l) == l[1][1] < 0 /\ l[2][1] < 0

\* no point of l lies in the sampling rectangle: l is beyond one of its four
\* sides, or the line through l passes the rectangle by
Outside(l) ==
    \/ Above(l) \/ Below(l) \/ RightOf(l) \/ LeftOf(l)
    \/ /\ ~ZeroLength(l)
       /\ \E s \in {-1, 1} :
            \A c \in RectCorners :
                s * Side(l, c) > 0 \/ (Side(l, c) = 0 /\ c /= V2(0, 0))

\* C2 as first stated: a path all of whose segments lie outside the sampling
\* rectangle, on any side of it, marks no cell under either rule.
C2_OutsideAnySideEmpty ==
    (\A i \in 1..Len(path) : Outside(path[i])) =>
        \A r \in FillRule \cap done : NoCellFilled(ret[r])

\* C2: a path all of whose segments lie entirely above, entirely below or
\* entirely to the right of the sampling rectangle marks no cell under
\* either rule.
C2_OutsideEmpty ==
    (\A i \in 1..Len(path) : Above(path[i]) \/ Below(path[i]) \/ RightOf(path[i])) =>
        \A r \in FillRule \cap done : NoCellFilled(ret[r])

\* both fills done on a closed triangle right of a 1 x 1 grid that spans the
\* height of its sample point
C2_Witness ==
    /\ FillRule \subseteq done
    /\ w = 1 /\ h = 1
    /\ path = <<Line(V2(2, -1), V2(3, 3)), Line(V2(3, 3), V2(3, -1)), Line(V2(3, -1), V2(2, -1))>>
    /\ NoCellFilled(ret.NonZero) /\ NoCellFilled(ret.EvenOdd)

\* C3: the square of side S under NonZero fills all S x S cells of an S x S
\* grid, and on a 2S x 2S grid exactly the cells of its first S rows and
\* first S columns (S = 10).
C3_Square ==
    (path = SquarePath /\ "NonZero" \in done) =>
        \A c \in Cells :
            (ret.NonZero[c[1]][c[2]] = "#") = (c[1] <= SquareSide /\ c[2] <= SquareSide)

\* NonZero fill of the square done on the 2S x 2S grid: the cell at the
\* corner of the block is filled, its three outer neighbours are not
C3_Witness ==
    /\ path = SquarePath /\ "NonZero" \in done /\ w = 2 * SquareSide
    /\ ret.NonZero[SquareSide][SquareSide] = "#"
    /\ ret.NonZero[SquareSide + 1][SquareSide] = "."
    /\ ret.NonZero[SquareSide][SquareSide + 1] = "."
    /\ ret.NonZero[SquareSide + 1][SquareSide + 1] = "."

\* the signed crossing of Line l by the ray from pt towards negative x, each
\* Line taken half open in y so that a shared vertex counts once
TrueCrossing(l, pt) ==
    LET up == l[1][2] <= pt[2] /\ pt[2] < l[2][2]
        down == l[2][2] <= pt[2] /\ pt[2] < l[1][2]
    IN  IF up /\ Side(l, pt) < 0 THEN 1
        ELSE IF down /\ Side(l, pt) > 0 THEN -1
        ELSE 0

RECURSIVE TrueWindingFrom(_, _, _)
TrueWindingFrom(p, pt, i) ==
    IF i > Len(p) THEN 0 ELSE TrueCrossing(p[i], pt) + TrueWindingFrom(p, pt, i + 1)

\* the winding number of the closed path p around a point not on it
TrueWinding(p, pt) == TrueWindingFrom(p, pt, 1)

Abs(n) == IF n < 0 THEN -n ELSE n

OnLine(l, pt) ==
    /\ Side(l, pt) = 0
    /\ (pt[1] - l[1][1]) * (pt[1] - l[2][1]) <= 0
    /\ (pt[2] - l[1][2]) * (pt[2] - l[2][2]) <= 0

OnPath(p, pt) == \E i \in 1..Len(p) : OnLine(p[i], pt)

\* C6: for the eight path on its 20 x 16 grid, every cell of the region
\* wound twice has winding 2 in magnitude, is filled under NonZero and not
\* under EvenOdd, and the two grids differ at exactly the cells of that
\* region (cells whose centre lies on the path itself are left aside).
C6_TwiceWound ==
    (path \in Eights /\ FillRule \subseteq done) =>
        \A c \in {d \in Cells : ~OnPath(path, Centre(d))} :
            LET twice == Abs(TrueWinding(path, Centre(c))) = 2
            IN  /\ twice => /\ Abs(compute_winding(path, Centre(c)[1], Centre(c)[2])) = 2
                            /\ ret.NonZero[c[1]][c[2]] = "#"
                            /\ ret.EvenOdd[c[1]][c[2]] = "."
                /\ (ret.NonZero[c[1]][c[2]] /= ret.EvenOdd[c[1]][c[2]]) = twice

----------------------------------------------------------------------------
(* Calls of stroke on paths of one or two segments, and of stroke on each  *)
(* segment of the path taken alone.                                        *)

MaxStart == 1

MaxDir == 4

StrokeW == 7

StrokeH == 3

\* stroke widths in half units: 1.0 (as in main) and 5.0
Widths == {2, 10}

IsSquareNumber(n) == sqrt(n) * sqrt(n) = n

\* make_thicc is exact on l: its length is a whole number of half units and
\* so are both components of width/2 * normal
Thickenable(l, width) ==
    LET d == direction(l)
        n == d[1] * d[1] + d[2] * d[2]
    IN  /\ n > 0
        /\ IsSquareNumber(n)
        /\ width % 2 = 0
        /\ ((width \div 2) * d[1]) % sqrt(n) = 0
        /\ ((width \div 2) * d[2]) % sqrt(n) = 0

StrokeSegments(width) ==
    {l \in {Line(V2(sx, 0), V2(sx + dx, dy)) :
                sx \in 0..MaxStart, dx \in (-MaxDir)..MaxDir, dy \in (-MaxDir)..MaxDir} :
        Thickenable(l, width)}

InitStroke ==
    /\ stroke_width \in Widths
    /\ \/ \E a \in StrokeSegments(stroke_width) : path = <<a>>
       \/ \E a \in StrokeSegments(stroke_width), b \in StrokeSegments(stroke_width) :
             path = <<a, b>>
    /\ w = StrokeW
    /\ h = StrokeH
    /\ self = NoLine /\ other = NoLine /\ x = 0 /\ y = 0
    /\ ret = [Blank EXCEPT !.alone = [i \in 1..Len(path) |-> <<>>]]
    /\ done = {}

\* stroke(&path, w, h, stroke_width)
CallStroke ==
    /\ "stroke" \notin done
    /\ ret' = [ret EXCEPT !.stroke = stroke(path, w, h, stroke_width)]
    /\ done' = done \cup {"stroke"}
    /\ UNCHANGED <<path, w, h, x, y, self, other, stroke_width>>

\* stroke(&vec![path[i]], w, h, stroke_width)
CallStrokeAlone ==
    \E i \in 1..Len(path) :
        /\ ret.alone[i] = <<>>
        /\ ret' = [ret EXCEPT !.alone[i] = stroke(<<path[i]>>, w, h, stroke_width)]
        /\ done' = done \cup {IF i = 1 THEN "stroke of segment 1" ELSE "stroke of segment 2"}
        /\ UNCHANGED <<path, w, h, x, y, self, other, stroke_width>>

NextStroke == CallStroke \/ CallStrokeAlone

SpecStroke == InitStroke /\ [][NextStroke]_vars

Dot(u, v) == u[1] * v[1] + u[2] * v[2]

\* the foot of pt on the line through l lies on l, between its two ends
Alongside(l, pt) ==
    LET along == Dot(direction(l), V2(pt[1] - l[1][1], pt[2] - l[1][2]))
    IN  0 < along /\ along < Dot(direction(l), direction(l))

\* 4 * length^2 * (distance of pt from the line through l)^2, and the same
\* of half the stroke width
Dist2(l, pt) == 4 * Side(l, pt) * Side(l, pt)

Half2(l, width) == width * width * Dot(direction(l), direction(l))

\* C7: stroke of a single segment of nonzero length fills a band of width W
\* centred on it: a pixel centre alongside the segment nearer to the centre
\* line than W/2 is filled, a pixel centre farther from it than W/2 is not.
C7_Band ==
    ("stroke" \in done /\ Len(path) = 1) =>
        \A c \in Cells :
            /\ (Alongside(path[1], Centre(c))
                    /\ Dist2(path[1], Centre(c)) < Half2(path[1], stroke_width))
                  => ret.stroke[c[1]][c[2]] = "#"
            /\ Dist2(path[1], Centre(c)) > Half2(path[1], stroke_width)
                  => ret.stroke[c[1]][c[2]] = "."

AllStrokesDone ==
    /\ "stroke" \in done
    /\ \A i \in 1..Len(path) : ret.alone[i] /= <<>>

\* C9: stroke of a path of several segments fills a cell exactly when the
\* stroke of at least one of its segments alone fills it.
C9_NoCancel ==
    (AllStrokesDone /\ Len(path) >= 2) =>
        \A c \in Cells :
            (ret.stroke[c[1]][c[2]] = "#")
                = (\E i \in 1..Len(path) : ret.alone[i][c[1]][c[2]] = "#")

====
